---- MODULE Spec2Model ----
(***************************************************************************)
(* Offload of a quantized 4x4 convolution to the hps_accel gen-1           *)
(* accelerator: the eligibility test CanAccelerateConv4x4 and the tiling   *)
(* and streaming loop nest ConvPerChannel4x4 of conv_accel_gen_1.cc.       *)
(*                                                                         *)
(* Pointers are byte offsets from the start of the tensor they point into. *)
(* Tensor contents are symbolic: an 8-bit result is identified by the      *)
(* input window, the filter bytes and the post-processing channel that     *)
(* produced it, so two results are equal only if they were computed from   *)
(* the same data.                                                          *)
(***************************************************************************)
EXTENDS Integers, Sequences, FiniteSets, TLC

VARIABLES
  params,          \* ConvParams of the operator
  input_shape,     \* RuntimeShape <<batch, height, width, depth>>
  filter_shape,    \* RuntimeShape <<output depth, height, width, input depth>>
  output_shape,    \* RuntimeShape <<batch, height, width, output depth>>
  bias,            \* [shape |-> bias_shape.FlatSize(), data |-> bias_data != NULL]
  gateware,        \* [MAX_FILTER_WORDS, MAX_INPUT_WORDS] of gateware_constants.h
  pc,              \* position of the caller / of ConvPerChannel4x4
  eligible,        \* result of CanAccelerateConv4x4
  failed_check,    \* the TFLITE_DCHECK that failed, "" if none
  loc,             \* locals of ConvPerChannel4x4
  accel,           \* state of the accelerator behind the hps_accel calls
  output_data,     \* bytes of the output tensor
  writes,          \* per byte of the output tensor, how often it was stored to
  oob,             \* a store went outside [0, output_shape.FlatSize())
  mon              \* observer of the sequence of accelerator calls

vars == <<params, input_shape, filter_shape, output_shape, bias, gateware, pc,
          eligible, failed_check, loc, accel, output_data, writes, oob, mon>>

operator_vars == <<params, input_shape, filter_shape, output_shape, bias, gateware>>

(***************************************************************************)
(* Bounds of the model.                                                    *)
(***************************************************************************)
MaxInputDepth == 8
MaxOutputDepth == 8
MaxInputHeight == 5
MaxInputWidth == 6
MaxStride == 2
MaxDilation == 2
MaxBatches == 2

PaddingTypes == {"kValid", "kSame"}
FilterSizes == {3, 4}

\* Builds of the gateware: the two capacity constants of gateware_constants.h.
\* They are compile-time constants of one build; the builds below make a
\* filter load hold fewer, as many, or more channels than the operator has.
GatewareBuilds ==
  { [MAX_FILTER_WORDS |-> 16,  MAX_INPUT_WORDS |-> 16],
    [MAX_FILTER_WORDS |-> 64,  MAX_INPUT_WORDS |-> 16],
    [MAX_FILTER_WORDS |-> 128, MAX_INPUT_WORDS |-> 32] }

(***************************************************************************)
(* RuntimeShape and ConvParams helpers.                                    *)
(***************************************************************************)
Min(a, b) == IF a < b THEN a ELSE b

\* shape.Dims(i), i counted from 0 as in the source
Dims(shape, i) == shape[i + 1]

DimensionsCount(shape) == Len(shape)

FlatSize(shape) == shape[1] * shape[2] * shape[3] * shape[4]

\* Offset(shape, i0, i1, i2, i3): row-major index of an element
Offset(shape, i0, i1, i2, i3) ==
  ((i0 * Dims(shape, 1) + i1) * Dims(shape, 2) + i2) * Dims(shape, 3) + i3

\* MatchingDim(shape1, i1, shape2, i2): the two dimensions agree by the caller's
\* contract; the value returned is shape1's.
MatchingDim(shape1, i1, shape2, i2) == Dims(shape1, i1)

\* Output extent of a convolution along one axis.
ComputeOutSize(padding, image_size, filter_size, stride, dilation) ==
  LET effective_filter_size == (filter_size - 1) * dilation + 1
  IN  IF padding = "kSame"
      THEN (image_size + stride - 1) \div stride
      ELSE (image_size + stride - effective_filter_size) \div stride

(***************************************************************************)
(* CanAccelerateConv4x4                                                    *)
(***************************************************************************)
\* The classifier without the depth-1 case of its depth test.
CanAccelerateConv4x4_NoDepthOne(p, in_shape, f_shape, out_shape, bias_data) ==
  /\ p.padding_type = "kValid"
  /\ MatchingDim(in_shape, 3, f_shape, 3) % 4 = 0
  /\ Dims(f_shape, 2) = 4
  /\ Dims(f_shape, 1) = 4
  /\ p.dilation_width_factor = 1
  /\ p.dilation_height_factor = 1
  /\ MatchingDim(in_shape, 0, out_shape, 0) = 1
  /\ bias_data

CanAccelerateConv4x4(p, in_shape, f_shape, out_shape, bias_data) ==
  LET input_depth == MatchingDim(in_shape, 3, f_shape, 3)
      filter_height == Dims(f_shape, 1)
      filter_width == Dims(f_shape, 2)
      dilation_width_factor == p.dilation_width_factor
      dilation_height_factor == p.dilation_height_factor
      batches == MatchingDim(in_shape, 0, out_shape, 0)
  IN  /\ p.padding_type = "kValid"
      /\ (input_depth = 1 \/ input_depth % 4 = 0)
      /\ filter_width = 4
      /\ filter_height = 4
      /\ dilation_width_factor = 1
      /\ dilation_height_factor = 1
      /\ batches = 1
      /\ bias_data

(***************************************************************************)
(* Symbolic 8-bit results.                                                 *)
(***************************************************************************)
\* The result of post-processing, with the parameters of channel p, the
\* accumulation of the flen filter bytes at fptr with the input window at win.
Result(win, fptr, flen, p) == [win |-> win, fptr |-> fptr, flen |-> flen, p |-> p]

Unwritten == Result(-1, -1, -1, -1)
Junk == Result(-2, -2, -2, -2)
NoAcc == [win |-> -1, fptr |-> -1, flen |-> -1]

\* What the reference convolution stores for output pixel (out_y, out_x),
\* channel c: the window at (out_y * stride_height, out_x * stride_width)
\* accumulated with all of filter c, post-processed with bias, multiplier and
\* shift c.
Reference(out_y, out_x, c) ==
  Result(Offset(input_shape, 0, out_y * params.stride_height,
                out_x * params.stride_width, 0),
         Offset(filter_shape, c, 0, 0, 0),
         Dims(filter_shape, 1) * Dims(filter_shape, 2) * Dims(filter_shape, 3),
         c)

\* The byte of the output tensor at flat index k, in the reference's output.
ReferenceByte(k) ==
  LET depth == Dims(output_shape, 3)
      width == Dims(output_shape, 2)
      pixel == k \div depth
  IN  Reference(pixel \div width, pixel % width, k % depth)

(***************************************************************************)
(* The accelerator behind the hps_accel calls.                             *)
(***************************************************************************)
AccelInit ==
  [ input_offset |-> 0,        \* number of LoadInputOffset calls taken
    output_offsets |-> 0,      \* number of SetOutputOffsets calls taken
    filter |-> [ptr |-> 0, depth |-> 0, count |-> 0],
    fpos |-> 0,                \* filter stream cursor, in bytes
    oparams |-> [first |-> 0, count |-> 0],
    ppos |-> 0,                \* post-processing parameter cursor
    input |-> [ptr |-> -1, width |-> 0, depth |-> 0],
    streamed |-> [fptr |-> -1, flen |-> 0],
    queue |-> <<>> ]

AccelLoadInputOffset(a) == [a EXCEPT !.input_offset = 1]

AccelSetOutputOffsets(a) == [a EXCEPT !.output_offsets = 1]

\* Holds the weights of output_channels filters, read from ptr on.
AccelLoadFilter(a, input_depth, output_channels, ptr) ==
  [a EXCEPT !.filter = [ptr |-> ptr, depth |-> input_depth, count |-> output_channels],
            !.fpos = 0]

\* Holds the bias, multiplier and shift of channels offset .. offset + count - 1.
AccelLoadOutputParams(a, offset, count) ==
  [a EXCEPT !.oparams = [first |-> offset, count |-> count], !.ppos = 0]

\* Holds the 4x4 window whose first element is at ptr.
AccelLoadInput(a, width, depth, ptr) ==
  [a EXCEPT !.input = [ptr |-> ptr, width |-> width, depth |-> depth]]

\* Streams iterations Vector16s of filter and input through the multipliers;
\* the filter store is cyclic.
AccelAdvanceFilterInput(a, iterations) ==
  LET size == a.filter.count * 16 * a.filter.depth
  IN  [a EXCEPT !.streamed = [fptr |-> a.filter.ptr + a.fpos, flen |-> iterations * 16],
                !.fpos = IF size = 0 THEN 0 ELSE (a.fpos + iterations * 16) % size]

\* The raw accumulator of what was streamed.
AccelMultiplyAccumulate(a) ==
  [win |-> a.input.ptr, fptr |-> a.streamed.fptr, flen |-> a.streamed.flen]

\* Pushes one 8-bit result; the parameter store is cyclic.
AccelPostProcess(a, acc) ==
  [a EXCEPT !.queue = Append(@, Result(acc.win, acc.fptr, acc.flen,
                                       a.oparams.first + a.ppos)),
            !.ppos = IF a.oparams.count = 0 THEN 0 ELSE (a.ppos + 1) % a.oparams.count]

\* The word GetOutputWord returns: the four oldest results, lowest byte first.
\* A lane for which no result was pushed holds no defined value.
AccelOutputWord(a) ==
  [k \in 1..4 |-> IF k <= Len(a.queue) THEN a.queue[k] ELSE Junk]

AccelGetOutputWord(a) ==
  [a EXCEPT !.queue = IF Len(@) <= 4 THEN <<>> ELSE SubSeq(@, 5, Len(@))]

(***************************************************************************)
(* Observer of the accelerator calls. It sees only the calls and their     *)
(* arguments, in the order they are made, and goes to "bad" at the first   *)
(* call that is out of the load / compute / drain order:                   *)
(*   LoadInputOffset and SetOutputOffsets once each, before any filter;    *)
(*   per tile LoadFilter, LoadOutputParams, then the pixels in row-major   *)
(*   order; per pixel LoadInput, then as many AdvanceFilterInput,          *)
(*   multiply_accumulate, PostProcess rounds as the filter load has        *)
(*   channels, then the GetOutputWord calls.                               *)
(***************************************************************************)
Call(name, count, ptr) == [name |-> name, count |-> count, ptr |-> ptr]

MonInit ==
  [ phase |-> "idle", offs |-> 0, outs |-> 0, px |-> 0, nPost |-> 0, nGet |-> 0,
    chans |-> 0, covered |-> 0, gap |-> FALSE ]

PixelsPerTile == Dims(output_shape, 1) * Dims(output_shape, 2)

\* the window origin of the k-th pixel (from 0) of a row-major walk
RowMajorWindow(k) ==
  Offset(input_shape, 0, (k \div Dims(output_shape, 2)) * params.stride_height,
         (k % Dims(output_shape, 2)) * params.stride_width, 0)

PixelComplete(m) == m.phase \in {"input", "post", "get"} /\ m.nPost = m.chans

TileComplete(m, drained) ==
  \/ m.phase = "idle"
  \/ m.phase = "params" /\ PixelsPerTile = 0
  \/ PixelComplete(m) /\ m.px = PixelsPerTile /\ drained

Allowed(m, call, drained) ==
  CASE call.name = "LoadInputOffset"  -> m.phase = "idle" /\ m.offs = 0
    [] call.name = "SetOutputOffsets" -> m.phase = "idle" /\ m.outs = 0
    [] call.name = "LoadFilter" -> m.offs = 1 /\ m.outs = 1 /\ TileComplete(m, drained)
    [] call.name = "LoadOutputParams" -> m.phase = "filter"
    [] call.name = "LoadInput" ->
         /\ m.phase = "params" \/ PixelComplete(m)
         /\ m.px < PixelsPerTile
         /\ call.ptr = RowMajorWindow(m.px)
    [] call.name = "AdvanceFilterInput" ->
         m.phase \in {"input", "post"} /\ m.nPost < m.chans /\ m.nGet = 0
    [] call.name = "multiply_accumulate" -> m.phase = "adv"
    [] call.name = "PostProcess" -> m.phase = "mac"
    [] call.name = "GetOutputWord" -> PixelComplete(m)
    [] OTHER -> FALSE

Observe(m, call, drained) ==
  IF m.phase = "bad" \/ ~Allowed(m, call, drained) THEN [m EXCEPT !.phase = "bad"]
  ELSE CASE call.name = "LoadInputOffset"  -> [m EXCEPT !.offs = 1]
         [] call.name = "SetOutputOffsets" -> [m EXCEPT !.outs = 1]
         [] call.name = "LoadFilter" ->
              [m EXCEPT !.phase = "filter", !.chans = call.count, !.px = 0,
                        !.nPost = 0, !.nGet = 0,
                        !.gap = @ \/ call.ptr # Offset(filter_shape, m.covered, 0, 0, 0),
                        !.covered = @ + call.count]
         [] call.name = "LoadOutputParams" -> [m EXCEPT !.phase = "params"]
         [] call.name = "LoadInput" ->
              [m EXCEPT !.phase = "input", !.px = @ + 1, !.nPost = 0, !.nGet = 0]
         [] call.name = "AdvanceFilterInput" -> [m EXCEPT !.phase = "adv"]
         [] call.name = "multiply_accumulate" -> [m EXCEPT !.phase = "mac"]
         [] call.name = "PostProcess" -> [m EXCEPT !.phase = "post", !.nPost = @ + 1]
         [] call.name = "GetOutputWord" -> [m EXCEPT !.phase = "get", !.nGet = 1]

(***************************************************************************)
(* The operators the model runs on.                                        *)
(***************************************************************************)
ComputePadding(padding, stride, dilation, in_size, filter_size, out_size) ==
  LET effective_filter_size == (filter_size - 1) * dilation + 1
      total == (out_size - 1) * stride + effective_filter_size - in_size
  IN  IF padding = "kValid" \/ total <= 0 THEN 0 ELSE total \div 2

EligibleDepths == {d \in 1..MaxInputDepth : d = 1 \/ d % 4 = 0}

\* The operator with the parameters o; its output shape and padding values
\* are the ones the parameters imply.
InitOperator(o) ==
  LET out_h == ComputeOutSize(o.padding, o.in_h, o.f_h, o.s_h, o.dil_h)
      out_w == ComputeOutSize(o.padding, o.in_w, o.f_w, o.s_w, o.dil_w)
  IN  /\ params = [ padding_type |-> o.padding,
                    padding_values |->
                      [ width |-> ComputePadding(o.padding, o.s_w, o.dil_w, o.in_w,
                                                 o.f_w, out_w),
                        height |-> ComputePadding(o.padding, o.s_h, o.dil_h, o.in_h,
                                                  o.f_h, out_h) ],
                    stride_width |-> o.s_w, stride_height |-> o.s_h,
                    dilation_width_factor |-> o.dil_w,
                    dilation_height_factor |-> o.dil_h,
                    quantized_activation_min |-> -128,
                    quantized_activation_max |-> 127 ]
      /\ input_shape = <<o.batches, o.in_h, o.in_w, o.depth>>
      /\ filter_shape = <<o.out_depth, o.f_h, o.f_w, o.depth>>
      /\ output_shape = <<o.batches, out_h, out_w, o.out_depth>>
      /\ bias = [shape |-> o.out_depth, data |-> o.bias_data]
      /\ gateware = o.gw

\* Operators that vary what the classifier reads, on one geometry.
ClassifierCases ==
  LET size == 3 * MaxDilation + 1
  IN  \E padding \in PaddingTypes, batches \in 1..MaxBatches,
         depth \in 1..MaxInputDepth, f_h \in FilterSizes, f_w \in FilterSizes,
         dil_h \in 1..MaxDilation, dil_w \in 1..MaxDilation, bias_data \in BOOLEAN :
        InitOperator([ padding |-> padding, batches |-> batches, in_h |-> size,
                       in_w |-> size, depth |-> depth, f_h |-> f_h, f_w |-> f_w,
                       dil_h |-> dil_h, dil_w |-> dil_w, s_h |-> 1, s_w |-> 1,
                       out_depth |-> 4, bias_data |-> bias_data,
                       gw |-> [MAX_FILTER_WORDS |-> 128, MAX_INPUT_WORDS |-> 32] ])

\* Operators the classifier accepts, over the geometries and the builds.
EngineCases ==
  \E depth \in EligibleDepths, out_depth \in 1..MaxOutputDepth,
     in_h \in 4..MaxInputHeight, in_w \in 4..MaxInputWidth,
     s_h \in 1..MaxStride, s_w \in 1..MaxStride, gw \in GatewareBuilds :
    InitOperator([ padding |-> "kValid", batches |-> 1, in_h |-> in_h, in_w |-> in_w,
                   depth |-> depth, f_h |-> 4, f_w |-> 4, dil_h |-> 1, dil_w |-> 1,
                   s_h |-> s_h, s_w |-> s_w, out_depth |-> out_depth,
                   bias_data |-> TRUE, gw |-> gw ])

LocInit ==
  [ stride_width |-> 0, stride_height |-> 0, input_depth |-> 0, output_depth |-> 0,
    input_height |-> 0, input_width |-> 0, output_height |-> 0, output_width |-> 0,
    filter_words_per_output_channel |-> 0, max_output_channels_per_load |-> 0,
    out_channel_offset |-> 0, output_channels |-> 0, output_data32_base |-> 0,
    out_y |-> 0, out_x |-> 0, in_y_origin |-> 0, in_x_origin |-> 0,
    current_input_data |-> 0, out_channel |-> 0, iterations |-> 0, acc |-> NoAcc,
    output_data32 |-> 0, i |-> 0 ]

Init ==
  /\ ClassifierCases \/ EngineCases
  /\ pc = "classify"
  /\ eligible = FALSE
  /\ failed_check = ""
  /\ loc = LocInit
  /\ accel = AccelInit
  /\ output_data = [k \in 0..(FlatSize(output_shape) - 1) |-> Unwritten]
  /\ writes = [k \in 0..(FlatSize(output_shape) - 1) |-> 0]
  /\ oob = FALSE
  /\ mon = MonInit

(***************************************************************************)
(* The caller: conv.h's ConvPerChannel asks the classifier and runs the    *)
(* accelerated kernel only on the operators it accepts.                    *)
(***************************************************************************)
Classify ==
  /\ pc = "classify"
  /\ eligible' = CanAccelerateConv4x4(params, input_shape, filter_shape,
                                      output_shape, bias.data)
  /\ pc' = IF eligible' THEN "entry" ELSE "reference"
  /\ UNCHANGED <<operator_vars, failed_check, loc, accel, output_data, writes, oob, mon>>

(***************************************************************************)
(* ConvPerChannel4x4                                                       *)
(***************************************************************************)
\* The first of the checks <<name, condition>> that does not hold, "" if all do.
FirstFailed(checks) ==
  IF \A k \in 1..Len(checks) : checks[k][2] THEN ""
  ELSE checks[CHOOSE k \in 1..Len(checks) :
                /\ ~checks[k][2]
                /\ \A j \in 1..(k - 1) : checks[j][2]][1]

\* The TFLITE_DCHECKs ahead of the first accelerator call.
EntryChecks ==
  << <<"dilation_width_factor == 1", params.dilation_width_factor = 1>>,
     <<"dilation_height_factor == 1", params.dilation_height_factor = 1>>,
     <<"padding_type == kValid", params.padding_type = "kValid">>,
     <<"padding_values.width == 0", params.padding_values.width = 0>>,
     <<"padding_values.height == 0", params.padding_values.height = 0>>,
     <<"output_activation_min <= output_activation_max",
       params.quantized_activation_min <= params.quantized_activation_max>>,
     <<"input_shape.DimensionsCount() == 4", DimensionsCount(input_shape) = 4>>,
     <<"filter_shape.DimensionsCount() == 4", DimensionsCount(filter_shape) = 4>>,
     <<"output_shape.DimensionsCount() == 4", DimensionsCount(output_shape) = 4>>,
     <<"batches == 1", MatchingDim(input_shape, 0, output_shape, 0) = 1>>,
     <<"input_depth == 1 || input_depth % 4 == 0",
       LET input_depth == MatchingDim(input_shape, 3, filter_shape, 3)
       IN  input_depth = 1 \/ input_depth % 4 = 0>>,
     <<"bias_data", bias.data>>,
     <<"bias_shape.FlatSize() == output_depth",
       bias.shape = MatchingDim(filter_shape, 0, output_shape, 3)>>,
     <<"filter_shape.Dims(1) == 4", Dims(filter_shape, 1) = 4>>,
     <<"filter_shape.Dims(2) == 4", Dims(filter_shape, 2) = 4>> >>

filter_height == 4
filter_width == 4

\* A failed TFLITE_DCHECK aborts the run.
Check(name, condition, next) ==
  /\ failed_check' = IF condition THEN "" ELSE name
  /\ pc' = IF condition THEN next ELSE "abort"

Enter ==
  /\ pc = "entry"
  /\ failed_check' = FirstFailed(EntryChecks)
  /\ pc' = IF failed_check' = "" THEN "LoadInputOffset" ELSE "abort"
  /\ loc' = [loc EXCEPT
       !.stride_width = params.stride_width,
       !.stride_height = params.stride_height,
       !.input_depth = MatchingDim(input_shape, 3, filter_shape, 3),
       !.output_depth = MatchingDim(filter_shape, 0, output_shape, 3),
       !.input_height = Dims(input_shape, 1),
       !.input_width = Dims(input_shape, 2),
       !.output_height = Dims(output_shape, 1),
       !.output_width = Dims(output_shape, 2)]
  /\ UNCHANGED <<operator_vars, eligible, accel, output_data, writes, oob, mon>>

LoadInputOffset ==
  /\ pc = "LoadInputOffset"
  /\ accel' = AccelLoadInputOffset(accel)
  /\ mon' = Observe(mon, Call("LoadInputOffset", 0, 0), accel.queue = <<>>)
  /\ pc' = "SetOutputOffsets"
  /\ UNCHANGED <<operator_vars, eligible, failed_check, loc, output_data, writes, oob>>

\* SetOutputOffsets, then the tile size and the start of the tile loop.
MaxOutputChannelsPerLoad(filter_words_per_output_channel) ==
  ((gateware.MAX_FILTER_WORDS \div filter_words_per_output_channel) \div 4) * 4

SetOutputOffsets ==
  /\ pc = "SetOutputOffsets"
  /\ accel' = AccelSetOutputOffsets(accel)
  /\ mon' = Observe(mon, Call("SetOutputOffsets", 0, 0), accel.queue = <<>>)
  /\ LET words == (loc.input_depth * filter_height * filter_width) \div 4
     IN  loc' = [loc EXCEPT
           !.filter_words_per_output_channel = words,
           !.max_output_channels_per_load = MaxOutputChannelsPerLoad(words),
           !.out_channel_offset = 0]
  /\ pc' = "tile_loop"
  /\ UNCHANGED <<operator_vars, eligible, failed_check, output_data, writes, oob>>

\* for (out_channel_offset ...; out_channel_offset < output_depth; ...)
TileLoop ==
  /\ pc = "tile_loop"
  /\ IF loc.out_channel_offset < loc.output_depth
     THEN /\ loc' = [loc EXCEPT !.output_channels =
                       Min(loc.output_depth - loc.out_channel_offset,
                           loc.max_output_channels_per_load)]
          /\ pc' = "LoadFilter"
     ELSE /\ pc' = "done"
          /\ UNCHANGED loc
  /\ UNCHANGED <<operator_vars, eligible, failed_check, accel, output_data, writes,
                 oob, mon>>

LoadFilter ==
  /\ pc = "LoadFilter"
  /\ LET ptr == Offset(filter_shape, loc.out_channel_offset, 0, 0, 0)
     IN  /\ accel' = AccelLoadFilter(accel, loc.input_depth, loc.output_channels, ptr)
         /\ mon' = Observe(mon, Call("LoadFilter", loc.output_channels, ptr),
                           accel.queue = <<>>)
  /\ pc' = "LoadOutputParams"
  /\ UNCHANGED <<operator_vars, eligible, failed_check, loc, output_data, writes, oob>>

\* LoadOutputParams, then output_data32_base and the start of the row loop.
LoadOutputParams ==
  /\ pc = "LoadOutputParams"
  /\ accel' = AccelLoadOutputParams(accel, loc.out_channel_offset, loc.output_channels)
  /\ mon' = Observe(mon, Call("LoadOutputParams", loc.output_channels,
                              loc.out_channel_offset), accel.queue = <<>>)
  /\ loc' = [loc EXCEPT
       !.output_data32_base = Offset(output_shape, 0, 0, 0, loc.out_channel_offset),
       !.out_y = 0]
  /\ pc' = "row_loop"
  /\ UNCHANGED <<operator_vars, eligible, failed_check, output_data, writes, oob>>

\* for (out_y ...): the next row, or the next tile.
RowLoop ==
  /\ pc = "row_loop"
  /\ IF loc.out_y < loc.output_height
     THEN LET in_y_origin == loc.out_y * loc.stride_height
          IN  /\ loc' = [loc EXCEPT !.in_y_origin = in_y_origin, !.out_x = 0]
              /\ Check("in_y_origin + filter_height <= input_height",
                       in_y_origin + filter_height <= loc.input_height, "col_loop")
     ELSE /\ loc' = [loc EXCEPT !.out_channel_offset =
                       @ + loc.max_output_channels_per_load]
          /\ pc' = "tile_loop"
          /\ UNCHANGED failed_check
  /\ UNCHANGED <<operator_vars, eligible, accel, output_data, writes, oob, mon>>

\* for (out_x ...): the next pixel, or the next row.
ColLoop ==
  /\ pc = "col_loop"
  /\ IF loc.out_x < loc.output_width
     THEN LET in_x_origin == loc.out_x * loc.stride_width
          IN  /\ loc' = [loc EXCEPT
                    !.in_x_origin = in_x_origin,
                    !.current_input_data =
                      Offset(input_shape, 0, loc.in_y_origin, in_x_origin, 0)]
              /\ failed_check' = FirstFailed(
                   << <<"in_x_origin + filter_width <= input_width",
                        in_x_origin + filter_width <= loc.input_width>>,
                      <<"input_depth * filter_height * filter_width / 4 <= MAX_INPUT_WORDS",
                        (loc.input_depth * filter_height * filter_width) \div 4
                          <= gateware.MAX_INPUT_WORDS>> >>)
              /\ pc' = IF failed_check' = "" THEN "LoadInput" ELSE "abort"
     ELSE /\ loc' = [loc EXCEPT !.out_y = @ + 1]
          /\ pc' = "row_loop"
          /\ UNCHANGED failed_check
  /\ UNCHANGED <<operator_vars, eligible, accel, output_data, writes, oob, mon>>

LoadInput ==
  /\ pc = "LoadInput"
  /\ accel' = AccelLoadInput(accel, loc.input_width, loc.input_depth,
                             loc.current_input_data)
  /\ mon' = Observe(mon, Call("LoadInput", 0, loc.current_input_data),
                    accel.queue = <<>>)
  /\ loc' = [loc EXCEPT !.out_channel = loc.out_channel_offset]
  /\ pc' = "channel_loop"
  /\ UNCHANGED <<operator_vars, eligible, failed_check, output_data, writes, oob>>

\* The channel loop bounded by the tile's size alone, not by its end.
ChannelLoopCondition_NoOffset == loc.out_channel < loc.output_channels

\* out_channel < out_channel_offset + output_channels
ChannelLoopCondition == loc.out_channel < loc.out_channel_offset + loc.output_channels

\* for (out_channel ...): the next channel of the tile, or the drain of the pixel.
ChannelLoop ==
  /\ pc = "channel_loop"
  /\ IF ChannelLoopCondition
     THEN /\ loc' = [loc EXCEPT !.iterations =
                       (filter_height * filter_width * loc.input_depth) \div 16]
          /\ pc' = "AdvanceFilterInput"
     ELSE /\ loc' = [loc EXCEPT !.output_data32 = loc.output_data32_base, !.i = 0]
          /\ pc' = "drain_loop"
  /\ UNCHANGED <<operator_vars, eligible, failed_check, accel, output_data, writes,
                 oob, mon>>

AdvanceFilterInput ==
  /\ pc = "AdvanceFilterInput"
  /\ accel' = AccelAdvanceFilterInput(accel, loc.iterations)
  /\ mon' = Observe(mon, Call("AdvanceFilterInput", loc.iterations, 0),
                    accel.queue = <<>>)
  /\ pc' = "multiply_accumulate"
  /\ UNCHANGED <<operator_vars, eligible, failed_check, loc, output_data, writes, oob>>

MultiplyAccumulate ==
  /\ pc = "multiply_accumulate"
  /\ loc' = [loc EXCEPT !.acc = AccelMultiplyAccumulate(accel)]
  /\ mon' = Observe(mon, Call("multiply_accumulate", 0, 0), accel.queue = <<>>)
  /\ pc' = "PostProcess"
  /\ UNCHANGED <<operator_vars, eligible, failed_check, accel, output_data, writes, oob>>

\* PostProcess(acc), then ++out_channel.
PostProcess ==
  /\ pc = "PostProcess"
  /\ accel' = AccelPostProcess(accel, loc.acc)
  /\ mon' = Observe(mon, Call("PostProcess", 0, 0), accel.queue = <<>>)
  /\ loc' = [loc EXCEPT !.out_channel = @ + 1]
  /\ pc' = "channel_loop"
  /\ UNCHANGED <<operator_vars, eligible, failed_check, output_data, writes, oob>>

\* output_data32_base += (output_depth / 4), as a byte offset
NextPixelBase(base) == base + 4 * (loc.output_depth \div 4)

\* for (i ...; i < output_channels; i += 4): the next word, or the next pixel.
DrainLoop ==
  /\ pc = "drain_loop"
  /\ IF loc.i < loc.output_channels
     THEN /\ pc' = "GetOutputWord"
          /\ UNCHANGED loc
     ELSE /\ loc' = [loc EXCEPT !.output_data32_base = NextPixelBase(@),
                                !.out_x = @ + 1]
          /\ pc' = "col_loop"
  /\ UNCHANGED <<operator_vars, eligible, failed_check, accel, output_data, writes,
                 oob, mon>>

\* *(output_data32++) = hps_accel::GetOutputWord(), then i += 4.
GetOutputWord ==
  /\ pc = "GetOutputWord"
  /\ LET word == AccelOutputWord(accel)
         addr == loc.output_data32
         hit(b) == b \in addr..(addr + 3)
     IN  /\ output_data' = [b \in DOMAIN output_data |->
                              IF hit(b) THEN word[b - addr + 1] ELSE output_data[b]]
         /\ writes' = [b \in DOMAIN writes |->
                         IF hit(b) THEN writes[b] + 1 ELSE writes[b]]
         /\ oob' = (oob \/ \E b \in addr..(addr + 3) : b \notin DOMAIN output_data)
  /\ accel' = AccelGetOutputWord(accel)
  /\ mon' = Observe(mon, Call("GetOutputWord", 0, 0), accel.queue = <<>>)
  /\ loc' = [loc EXCEPT !.output_data32 = @ + 4, !.i = @ + 4]
  /\ pc' = "drain_loop"
  /\ UNCHANGED <<operator_vars, eligible, failed_check>>

Next ==
  \/ Classify
  \/ Enter
  \/ LoadInputOffset
  \/ SetOutputOffsets
  \/ TileLoop
  \/ LoadFilter
  \/ LoadOutputParams
  \/ RowLoop
  \/ ColLoop
  \/ LoadInput
  \/ ChannelLoop
  \/ AdvanceFilterInput
  \/ MultiplyAccumulate
  \/ PostProcess
  \/ DrainLoop
  \/ GetOutputWord

Spec == Init /\ [][Next]_vars

\* The kernel is one sequential thread: a step that can be taken is taken.
FairSpec == Spec /\ WF_vars(Next)

(***************************************************************************)
(* Properties.                                                             *)
(***************************************************************************)
OutputDepth == Dims(output_shape, 3)
OutputWidth == Dims(output_shape, 2)
Returned == pc = "done"
OutputIsReference == \A k \in DOMAIN output_data : output_data[k] = ReferenceByte(k)

\* The conjuncts of the eligibility rule, read off the operator.
EligibilityConjuncts ==
  << params.padding_type = "kValid",
     Dims(input_shape, 3) = 1 \/ Dims(input_shape, 3) % 4 = 0,
     Dims(filter_shape, 1) = 4,
     Dims(filter_shape, 2) = 4,
     params.dilation_height_factor = 1,
     params.dilation_width_factor = 1,
     Dims(input_shape, 0) = 1,
     bias.data >>

Falsified == {k \in 1..Len(EligibilityConjuncts) : ~EligibilityConjuncts[k]}

\* C1: CanAccelerateConv4x4 returns true exactly when padding is valid, input
\* depth is 1 or a multiple of 4, the filter is 4x4, both dilations are 1,
\* batch is 1 and the bias pointer is non-null; one falsified conjunct is
\* enough to make it return false.
C1_EligibilityIffAllConjuncts ==
  pc # "classify" => (eligible <=> Falsified = {})

\* C1 witness: an operator with exactly one conjunct falsified was classified
\* and sent to the reference kernel.
C1_Witness == pc = "reference" /\ ~eligible /\ Cardinality(Falsified) = 1

\* C2: after ConvPerChannel4x4 returns, every byte of the output tensor is the
\* reference value of its pixel and channel.
C2_OutputEqualsReference == Returned => OutputIsReference

\* C3: with two or more tiles (output depth above max_output_channels_per_load)
\* every channel of every pixel holds the reference value and was stored by
\* one tile only.
C3_TilesKeepReference ==
  (Returned /\ OutputDepth > loc.max_output_channels_per_load)
    => \A k \in DOMAIN output_data :
         output_data[k] = ReferenceByte(k) /\ writes[k] = 1

\* C4: output depth 6 with max_output_channels_per_load 4 is tiled as channels
\* 0-3 and 4-5, and leaves every output byte equal to the reference value.
C4_Depth6Tiling ==
  (OutputDepth = 6 /\ loc.max_output_channels_per_load = 4)
    => /\ pc = "LoadOutputParams" =>
            \/ accel.filter.ptr = Offset(filter_shape, 0, 0, 0, 0)
               /\ accel.filter.count = 4
            \/ accel.filter.ptr = Offset(filter_shape, 4, 0, 0, 0)
               /\ accel.filter.count = 2
       /\ Returned => OutputIsReference /\ ~oob

\* C5: the stores of one run hit exactly the bytes [0, FlatSize), each once,
\* and the word of pixel (out_y, out_x) in the tile at channel offset c goes to
\* byte (out_y * output_width + out_x) * output_depth + c.
C5_WritesExactlyTheOutput ==
  /\ ~oob
  /\ \A k \in DOMAIN writes : writes[k] <= 1
  /\ Returned => \A k \in DOMAIN writes : writes[k] = 1
  /\ pc = "GetOutputWord" =>
       loc.output_data32 =
         (loc.out_y * OutputWidth + loc.out_x) * OutputDepth
           + loc.out_channel_offset + loc.i

\* C6: on an operator the classifier accepts, no TFLITE_DCHECK of
\* ConvPerChannel4x4 fails.
C6_NoCheckFails == failed_check = "" /\ pc # "abort"

\* C7: the output-channel offset of the tile loop strictly increases on every
\* iteration (so the loop ends after finitely many tiles).
C7_OffsetStrictlyIncreases ==
  [][(pc = "row_loop" /\ pc' = "tile_loop")
       => loc'.out_channel_offset > loc.out_channel_offset]_vars

\* C8: max_output_channels_per_load is a multiple of 4, every filter load fits
\* in filter memory, and the tiles are contiguous, disjoint runs of channels
\* that together cover [0, output_depth): a run that starts tiling gets all
\* output channels loaded.
C8_TilesCoverOutputDepth ==
  /\ [](/\ loc.max_output_channels_per_load % 4 = 0
        /\ ~mon.gap
        /\ accel.filter.count * ((accel.filter.depth * 16) \div 4)
             <= gateware.MAX_FILTER_WORDS)
  /\ (pc = "tile_loop") ~> (pc = "abort" \/ mon.covered = OutputDepth)

\* C9: the accelerator calls of a run follow the load / compute / drain order,
\* and a run that returns has completed its last tile.
C9_CallOrder ==
  /\ mon.phase # "bad"
  /\ Returned => mon.phase # "idle" /\ TileComplete(mon, accel.queue = <<>>)

\* C9 witness: a run of two or more non-empty tiles over several pixels returned.
C9_Witness ==
  /\ Returned
  /\ PixelsPerTile > 1
  /\ loc.max_output_channels_per_load > 0
  /\ OutputDepth > loc.max_output_channels_per_load
  /\ mon.phase = "get"

\* C10: at each GetOutputWord call the output queue holds a full word, and
\* after the last GetOutputWord of a pixel it is empty.
C10_QueueBalanced ==
  /\ pc = "GetOutputWord" => Len(accel.queue) >= 4
  /\ (pc = "drain_loop" /\ loc.i >= loc.output_channels) => accel.queue = <<>>

(***************************************************************************)
(* What does hold of the kernel where C2 - C8 and C10 fail: with an output *)
(* depth that is a multiple of 4 the output is the reference's and the     *)
(* stores and the queue are exact; with a non-zero tile size the run ends; *)
(* the tiles of a run that returns cover the output channels.              *)
(***************************************************************************)
Aligned == OutputDepth % 4 = 0

AlignedOutputEqualsReference ==
  (Returned /\ Aligned)
    => OutputIsReference /\ ~oob /\ \A k \in DOMAIN writes : writes[k] = 1

AlignedStoresAndQueue == Aligned => C5_WritesExactlyTheOutput /\ C10_QueueBalanced

NonEmptyTilesTerminate ==
  (pc = "tile_loop" /\ loc.max_output_channels_per_load > 0)
    ~> (pc \in {"done", "abort"})

TilesOfReturnedRunCover ==
  /\ loc.max_output_channels_per_load % 4 = 0
  /\ ~mon.gap
  /\ accel.filter.count * ((accel.filter.depth * 16) \div 4) <= gateware.MAX_FILTER_WORDS
  /\ Returned => mon.covered = OutputDepth

OnlyInputCapacityCheckFails ==
  failed_check \in
    {"", "input_depth * filter_height * filter_width / 4 <= MAX_INPUT_WORDS"}

====
